---- MODULE Spec2Model ----
(***************************************************************************)
(* PromiPoints: the monthly point ledger kept in localStorage              *)
(* (src/src/utils/storage.ts) and the handlers that read and write it:     *)
(* Login, AssignPoints, AdminSettings and App.                             *)
(*                                                                         *)
(* localStorage is one store per origin, shared by every browser tab that  *)
(* has the application open; each tab has its own React state.  The model  *)
(* keeps the store in global variables and the component state per tab.    *)
(* Every handler runs to completion (JavaScript is single threaded); the   *)
(* only suspension points are the setTimeout awaits, which split           *)
(* handleSubmit into a start step and a write step.                        *)
(***************************************************************************)
EXTENDS Integers, Sequences, FiniteSets, TLC

(***************************************************************************)
(* Bounds of the model                                                     *)
(***************************************************************************)
\* months the clock runs through (getCurrentMonth is 1..MaxMonth)
MaxMonth == 2
\* cap on the number of handleSubmit calls of one tab
MaxTransfers == 1
\* cap on the submissions of one tab that wait in their 800 ms delay
MaxPending == 1
\* cap on the number of categories of an admin draft (the code has none)
MaxCategories == 3

\* the browser tabs that can have the application open
Tabs == {"A", "B"}
Months == 1..MaxMonth

(***************************************************************************)
(* Inputs the handlers are exercised with                                  *)
(***************************************************************************)
\* recipients picked in the assign dialog
RecipientInputs == {"1"}
\* point value picked in the assign dialog: the largest button
PointInputs == {5}
\* categories picked in the assign dialog or edited in the admin draft
CategoryInputs == {"Trabajo en equipo"}
\* users ticked in the reset tab: two employees, and the People user, who
\* is not in the list
ResetInputs == {"1", "2", "3"}
\* names typed into the new-category field: blank, an existing name in
\* lower case, an existing name between spaces
CategoryNameInputs == {"   ", "trabajo en equipo", " Trabajo en equipo "}
\* the onboarding step whose remove button is pressed (0-based)
StepIndexInputs == {0}
\* the options of the SMTP provider select
SMTPProviders == {"gmail", "outlook", "sendgrid", "custom"}
\* addresses typed into the login form: an employee and the superadmin
LoginEmails == {"juan.perez@grupoprominente.com", "admin@sistema.local"}

(***************************************************************************)
(* State                                                                   *)
(***************************************************************************)
VARIABLES
  now,              \* the month the wall clock is in
  users,            \* localStorage promipoints_users
  allocations,      \* localStorage promipoints_allocations
  assignments,      \* localStorage promipoints_assignments
  storedUser,       \* localStorage promipoints_current_user ("null" = absent)
  storedConfig,     \* localStorage promipoints_system_config (<<>> = absent)
  tab,              \* per tab: App mounted, App.currentUser
  dlg,              \* per tab: the AssignPoints component state
  pending,          \* per tab: handleSubmit calls waiting in their delay
  draft,            \* per tab: AdminSettings.config (<<>> = not mounted)
  dashboard,        \* per tab: PeopleDashboard state (<<>> = isLoading)
  transfers,        \* per tab: handleSubmit calls so far (bounds the model)
  last              \* the handler that ran last and what it decided

vars == <<now, users, allocations, assignments, storedUser, storedConfig,
          tab, dlg, pending, draft, dashboard, transfers, last>>

store == <<users, allocations, assignments, storedUser, storedConfig>>

(***************************************************************************)
(* storage.ts: month, allocations, assignments                             *)
(***************************************************************************)
getCurrentMonth == now

\* index of the first allocation of (userId, month), 0 when there is none
allocIndex(allocs, userId, month) ==
  LET S == {i \in 1..Len(allocs) :
              allocs[i].userId = userId /\ allocs[i].month = month}
  IN IF S = {} THEN 0 ELSE CHOOSE i \in S : \A j \in S : i <= j

hasAllocation(allocs, userId, month) == allocIndex(allocs, userId, month) > 0

getUserAllocation(allocs, userId, month) ==
  allocs[allocIndex(allocs, userId, month)]

\* a variant that appends without looking for the record of the same key
updateAllocationAppend(allocs, allocation) ==
  Append(allocs, allocation)

updateAllocation(allocs, allocation) ==
  LET index == allocIndex(allocs, allocation.userId, allocation.month)
  IN IF index > 0
       THEN [allocs EXCEPT ![index] = allocation]
       ELSE Append(allocs, allocation)

\* a variant that puts the new record first
addAssignmentFirst(asgs, assignment) == << assignment >> \o asgs

addAssignment(asgs, assignment) == Append(asgs, assignment)

getReceivedPoints(asgs, userId) ==
  SelectSeq(asgs, LAMBDA a : a.toUserId = userId)

newAllocation(userId, month) ==
  [userId |-> userId, month |-> month, pointsRemaining |-> 10,
   pointsReceived |-> 0]

\* a variant that writes a fresh record without looking for an existing one
ensureMonthlyAllocationFresh(allocs, userId, month) ==
  updateAllocation(allocs, newAllocation(userId, month))

ensureMonthlyAllocation(allocs, userId, month) ==
  IF ~hasAllocation(allocs, userId, month)
    THEN updateAllocation(allocs, newAllocation(userId, month))
    ELSE allocs

(***************************************************************************)
(* storage.ts: system configuration                                        *)
(***************************************************************************)
getDefaultConfig ==
  [categories |->
     << [name |-> "Trabajo en equipo", enabled |-> TRUE],
        [name |-> "Innovación", enabled |-> TRUE],
        [name |-> "Liderazgo", enabled |-> TRUE],
        [name |-> "Colaboración", enabled |-> TRUE],
        [name |-> "Compromiso", enabled |-> TRUE],
        [name |-> "Excelencia", enabled |-> TRUE],
        [name |-> "Actitud positiva", enabled |-> TRUE],
        [name |-> "Comunicación efectiva", enabled |-> TRUE] >>,
   loginContent |->
     [title |-> "PromiPoints", subtitle |-> "Grupo Prominente",
      description |-> "Sistema de reconocimiento de Grupo Prominente",
      helpEmail |-> "people@grupoprominente.com"],
   onboardingSteps |->
     << [title |-> "¡Bienvenido a PromiPoints!",
         description |-> "Sistema de reconocimiento entre colaboradores de Grupo Prominente",
         details |-> "Reconoce el trabajo excepcional de tus compañeros y fortalece la cultura organizacional."],
        [title |-> "10 Puntos Mensuales",
         description |-> "Cada mes recibes 10 PromiPoints para compartir",
         details |-> "Los puntos no utilizados expiran al final del mes, así que ¡no olvides reconocer a tus compañeros!"],
        [title |-> "Asignación Anónima",
         description |-> "Reconoce valores organizacionales de forma privada",
         details |-> "Tus compañeros verán los puntos recibidos y la categoría, pero no sabrán quién los envió."],
        [title |-> "¡Estás listo!",
         description |-> "Comienza a reconocer el gran trabajo de tu equipo",
         details |-> "Haz clic en Asignar PromiPoints para dar tu primer reconocimiento."] >>,
   emailNotifications |->
     [enabled |-> FALSE, notifyEmployee |-> TRUE, notifyPeople |-> FALSE,
      peopleEmails |-> << >>, smtpProvider |-> "gmail",
      smtpHost |-> "smtp.gmail.com", smtpPort |-> 587, smtpUser |-> "",
      smtpPassword |-> "", fromEmail |-> "noreply@grupoprominente.com",
      fromName |-> "PromiPoints - Grupo Prominente"]]

\* a stored record is a JSON object: a function from the keys it has
hasField(config, field) == field \in DOMAIN config

\* config.field = value on a JSON object that may lack the key
withField(config, field, value) ==
  [f \in (DOMAIN config) \cup {field} |->
     IF f = field THEN value ELSE config[f]]

\* a variant that takes the default whether or not the key is present
backfillAlways(config, field) ==
  withField(config, field, getDefaultConfig[field])

backfill(config, field) ==
  IF ~hasField(config, field)
    THEN withField(config, field, getDefaultConfig[field])
    ELSE config

getSystemConfig(stored) ==
  LET config == IF stored # << >> THEN stored[1] ELSE getDefaultConfig
  IN backfill(backfill(backfill(config, "onboardingSteps"),
                       "loginContent"), "emailNotifications")

setSystemConfig(config) == << config >>

(***************************************************************************)
(* storage.ts: initializeDemoData                                          *)
(***************************************************************************)
demoUsers ==
  << [id |-> "admin", email |-> "admin@sistema.local", role |-> "superadmin"],
     [id |-> "1", email |-> "maria.garcia@grupoprominente.com", role |-> "employee"],
     [id |-> "2", email |-> "juan.perez@grupoprominente.com", role |-> "employee"],
     [id |-> "3", email |-> "ana.rodriguez@grupoprominente.com", role |-> "people"],
     [id |-> "4", email |-> "carlos.lopez@grupoprominente.com", role |-> "employee"],
     [id |-> "5", email |-> "laura.martinez@grupoprominente.com", role |-> "employee"],
     [id |-> "6", email |-> "diego.sanchez@grupoprominente.com", role |-> "employee"],
     [id |-> "7", email |-> "sofia.torres@grupoprominente.com", role |-> "employee"],
     [id |-> "8", email |-> "roberto.flores@grupoprominente.com", role |-> "employee"] >>

UserIds == {demoUsers[i].id : i \in 1..Len(demoUsers)}

demoAssignments(month) ==
  << [fromUserId |-> "2", toUserId |-> "1", points |-> 3,
      category |-> "Trabajo en equipo", month |-> month],
     [fromUserId |-> "4", toUserId |-> "1", points |-> 2,
      category |-> "Innovación", month |-> month],
     [fromUserId |-> "5", toUserId |-> "2", points |-> 4,
      category |-> "Liderazgo", month |-> month],
     [fromUserId |-> "1", toUserId |-> "4", points |-> 2,
      category |-> "Colaboración", month |-> month] >>

\* demoUsers.forEach(user => storage.ensureMonthlyAllocation(user.id))
RECURSIVE ensureAll(_, _, _)
ensureAll(allocs, us, month) ==
  IF us = << >> THEN allocs
  ELSE ensureAll(ensureMonthlyAllocation(allocs, Head(us).id, month),
                 Tail(us), month)

seedDebit(allocs, assignment, month) ==
  IF hasAllocation(allocs, assignment.fromUserId, month)
    THEN updateAllocation(allocs,
           [getUserAllocation(allocs, assignment.fromUserId, month)
              EXCEPT !.pointsRemaining = @ - assignment.points])
    ELSE allocs

\* a variant that records the demo assignments without crediting anybody
seedCreditSkipped(allocs, assignment, month) == allocs

seedCredit(allocs, assignment, month) ==
  IF hasAllocation(allocs, assignment.toUserId, month)
    THEN updateAllocation(allocs,
           [getUserAllocation(allocs, assignment.toUserId, month)
              EXCEPT !.pointsReceived = @ + assignment.points])
    ELSE allocs

\* demoAssignments.forEach(assignment => { debit sender; credit receiver })
RECURSIVE applyDemoAssignments(_, _, _)
applyDemoAssignments(allocs, asgs, month) ==
  IF asgs = << >> THEN allocs
  ELSE applyDemoAssignments(
         seedCredit(seedDebit(allocs, Head(asgs), month), Head(asgs), month),
         Tail(asgs), month)

\* a variant that seeds on every call, whether or not users exist
initializeDemoDataAlways(us, allocs, asgs, month) ==
  [users |-> demoUsers,
   allocations |->
     applyDemoAssignments(ensureAll(allocs, demoUsers, month),
                          demoAssignments(month), month),
   assignments |-> demoAssignments(month)]

\* the users, allocations and assignments initializeDemoData leaves behind
initializeDemoData(us, allocs, asgs, month) ==
  IF Len(us) = 0
    THEN [users |-> demoUsers,
          allocations |->
            applyDemoAssignments(ensureAll(allocs, demoUsers, month),
                                 demoAssignments(month), month),
          assignments |-> demoAssignments(month)]
    ELSE [users |-> us, allocations |-> allocs, assignments |-> asgs]

(***************************************************************************)
(* Strings: the two JavaScript string functions the login uses, on the     *)
(* addresses of the model                                                  *)
(***************************************************************************)
toLowerCase(s) ==
  CASE s = "Juan.Perez@grupoprominente.com" -> "juan.perez@grupoprominente.com"
    [] s = "JUAN.PEREZ@GRUPOPROMINENTE.COM" -> "juan.perez@grupoprominente.com"
    [] s = "Admin@Sistema.Local" -> "admin@sistema.local"
    [] s = "Trabajo en equipo" -> "trabajo en equipo"
    [] s = " Trabajo en equipo " -> " trabajo en equipo "
    [] s = "Puntualidad" -> "puntualidad"
    [] OTHER -> s

\* String.prototype.trim on the names of the model
trim(s) ==
  CASE s = "   " -> ""
    [] s = " Trabajo en equipo " -> "Trabajo en equipo"
    [] OTHER -> s

\* email.endsWith('@grupoprominente.com'), which compares case sensitively
endsWithCorporateDomain(s) ==
  s \in {"maria.garcia@grupoprominente.com", "juan.perez@grupoprominente.com",
         "Juan.Perez@grupoprominente.com", "nadie@grupoprominente.com",
         "ana.rodriguez@grupoprominente.com",
         "carlos.lopez@grupoprominente.com",
         "laura.martinez@grupoprominente.com",
         "diego.sanchez@grupoprominente.com",
         "sofia.torres@grupoprominente.com",
         "roberto.flores@grupoprominente.com"}

\* index of the least element of a set of indices, 0 when it is empty
firstOf(S) == IF S = {} THEN 0 ELSE CHOOSE i \in S : \A j \in S : i <= j

\* users.find(u => u.email.toLowerCase() === email.toLowerCase()), as an index
findUserIgnoringCase(us, email) ==
  firstOf({i \in 1..Len(us) : toLowerCase(us[i].email) = toLowerCase(email)})

\* users.find(u => u.email === userEmail), as an index
findUserByEmail(us, userEmail) ==
  firstOf({i \in 1..Len(us) : us[i].email = userEmail})

\* the role of the user object App holds as currentUser
roleOf(us, id) ==
  LET i == firstOf({j \in 1..Len(us) : us[j].id = id})
  IN IF i = 0 THEN "none" ELSE us[i].role

(***************************************************************************)
(* Component state of a tab                                                *)
(***************************************************************************)
\* AssignPoints is not mounted
closedDialog ==
  [open |-> FALSE, availablePoints |-> 0, selectedUser |-> "null",
   points |-> 1, category |-> "", showConfirmation |-> FALSE,
   isSubmitting |-> FALSE]

\* AdminSettings is rendered for the superadmin only (PeopleDashboard), once
\* the dashboard has loaded; its config state is initialised from
\* storage.getSystemConfig()
mountAdminSettings(us, id, stored) ==
  IF roleOf(us, id) = "superadmin" THEN << getSystemConfig(stored) >>
  ELSE << >>

Did(op, args) == [op |-> op, args |-> args]

Init ==
  /\ now = 1
  /\ users = << >>
  /\ allocations = << >>
  /\ assignments = << >>
  /\ storedUser = "null"
  /\ storedConfig = << >>
  /\ tab = [t \in Tabs |-> [mounted |-> FALSE, currentUser |-> "null"]]
  /\ dlg = [t \in Tabs |-> closedDialog]
  /\ pending = [t \in Tabs |-> << >>]
  /\ draft = [t \in Tabs |-> << >>]
  /\ dashboard = [t \in Tabs |-> << >>]
  /\ transfers = [t \in Tabs |-> 0]
  /\ last = Did("init", << >>)

(***************************************************************************)
(* The clock                                                               *)
(***************************************************************************)
AdvanceMonth ==
  /\ now < MaxMonth
  /\ now' = now + 1
  /\ last' = Did("AdvanceMonth", << >>)
  /\ UNCHANGED <<store, tab, dlg, pending, draft, dashboard, transfers>>

(***************************************************************************)
(* App.tsx                                                                 *)
(***************************************************************************)
\* The page is loaded (or reloaded) in tab t: App's mount effect
AppMount(t) ==
  LET d == initializeDemoData(users, allocations, assignments, getCurrentMonth)
  IN /\ users' = d.users
     /\ allocations' = d.allocations
     /\ assignments' = d.assignments
     /\ tab' = [tab EXCEPT ![t] = [mounted |-> TRUE, currentUser |-> storedUser]]
     /\ dlg' = [dlg EXCEPT ![t] = closedDialog]
     /\ pending' = [pending EXCEPT ![t] = << >>]
     /\ draft' = [draft EXCEPT ![t] = << >>]
     /\ dashboard' = [dashboard EXCEPT ![t] = << >>]
     /\ last' = Did("AppMount", << >>)
     /\ UNCHANGED <<now, storedUser, storedConfig, transfers>>

\* App.handleLogin, the onLogin callback of Login
onLogin(t, id) ==
  /\ storedUser' = id
  /\ tab' = [tab EXCEPT ![t].currentUser = id]
  /\ draft' = [draft EXCEPT ![t] = << >>]
  /\ dashboard' = [dashboard EXCEPT ![t] = << >>]

handleLogout(t) ==
  /\ tab[t].mounted /\ tab[t].currentUser # "null"
  /\ storedUser' = "null"
  /\ tab' = [tab EXCEPT ![t].currentUser = "null"]
  /\ dlg' = [dlg EXCEPT ![t] = closedDialog]
  /\ draft' = [draft EXCEPT ![t] = << >>]
  /\ dashboard' = [dashboard EXCEPT ![t] = << >>]
  /\ last' = Did("handleLogout", << >>)
  /\ UNCHANGED <<now, users, allocations, assignments, storedConfig, pending, transfers>>

(***************************************************************************)
(* PeopleDashboard (the second component of App.tsx)                       *)
(***************************************************************************)
\* a variant that reports the assignments of every month
currentMonthAssignmentsUnfiltered(asgs, month) == asgs

\* allAssignments.filter(a => a.month === month)
currentMonthAssignments(asgs, month) ==
  SelectSeq(asgs, LAMBDA a : a.month = month)

\* received.reduce((sum, a) => sum + a.points, 0)
RECURSIVE reducePoints(_, _)
reducePoints(received, sum) ==
  IF received = << >> THEN sum
  ELSE reducePoints(Tail(received), sum + Head(received).points)

\* received.reduce((acc, a) => { acc[a.category] = (acc[a.category] || 0)
\* + a.points; return acc }, {}): an object, as a function from its keys
RECURSIVE reduceBreakdown(_, _)
reduceBreakdown(received, acc) ==
  IF received = << >> THEN acc
  ELSE LET a == Head(received)
           prev == IF a.category \in DOMAIN acc THEN acc[a.category] ELSE 0
       IN reduceBreakdown(Tail(received),
            [c \in (DOMAIN acc) \cup {a.category} |->
               IF c = a.category THEN prev + a.points ELSE acc[c]])

\* the row of allUsers.map(u => ...) for the user record u
reportRow(u, allocs, monthAssignments, month) ==
  LET received == SelectSeq(monthAssignments, LAMBDA a : a.toUserId = u.id)
  IN [userId |-> u.id,
      email |-> u.email,
      pointsReceived |-> reducePoints(received, 0),
      recognitionCount |-> Len(received),
      pointsGiven |->
        IF hasAllocation(allocs, u.id, month)
          THEN 10 - getUserAllocation(allocs, u.id, month).pointsRemaining
          ELSE 0,
      categoryBreakdown |-> reduceBreakdown(received, [c \in {} |-> 0])]

\* Object.entries(categoryTotals).map(([name, value]) => ({ name, value })):
\* the categories in the order they first appear, with their totals
RECURSIVE categoryEntries(_, _)
categoryEntries(monthAssignments, entries) ==
  IF monthAssignments = << >> THEN entries
  ELSE LET a == Head(monthAssignments)
           i == firstOf({j \in 1..Len(entries) : entries[j].name = a.category})
       IN categoryEntries(Tail(monthAssignments),
            IF i > 0
              THEN [entries EXCEPT ![i].value = @ + a.points]
              ELSE Append(entries, [name |-> a.category, value |-> a.points]))

\* the four pieces of state loadData sets
loadData(us, allocs, asgs, month) ==
  LET monthAssignments == currentMonthAssignments(asgs, month)
  IN [users |-> us,
      assignments |-> monthAssignments,
      reportData |->
        [i \in 1..Len(us) |-> reportRow(us[i], allocs, monthAssignments, month)],
      categoryData |-> categoryEntries(monthAssignments, << >>)]

dashboardShown(t) ==
  /\ tab[t].mounted
  /\ roleOf(users, tab[t].currentUser) \in {"people", "superadmin"}

\* The timer the mount effect of PeopleDashboard sets fires: loadData() and
\* setIsLoading(false).  The skeleton gives way to the dashboard, and with
\* it AdminSettings is mounted, for the superadmin only.
PeopleDashboardEffect(t) ==
  /\ dashboardShown(t)
  /\ dashboard[t] = << >>
  /\ dashboard' = [dashboard EXCEPT ![t] =
                     << loadData(users, allocations, assignments, getCurrentMonth) >>]
  /\ draft' = [draft EXCEPT ![t] =
                 mountAdminSettings(users, tab[t].currentUser, storedConfig)]
  /\ last' = Did("loadData", << t >>)
  /\ UNCHANGED <<now, store, tab, dlg, pending, transfers>>

(***************************************************************************)
(* Login.tsx                                                               *)
(***************************************************************************)
loginShown(t) == tab[t].mounted /\ tab[t].currentUser = "null"

\* handleLogin waits 800 ms before it reads the store, as handleSubmit does:
\* timers of equal delay fire in the order they were set, so a submission
\* this tab started earlier has been written by then
noEarlierTimer(t) == pending[t] = << >>

\* a variant that admits every registered address, whatever its domain
loginDecisionAnyDomain(us, email) ==
  LET i == findUserIgnoringCase(us, email)
  IN IF i = 0 THEN << "notFound", 0 >> ELSE << "ok", i >>

\* what handleLogin decides for an address: <<outcome, user index>>
loginDecision(us, email) ==
  LET i == findUserIgnoringCase(us, email)
  IN IF i > 0 /\ us[i].role = "superadmin" THEN << "ok", i >>
     ELSE IF ~endsWithCorporateDomain(email) THEN << "notCorporate", 0 >>
     ELSE IF i = 0 THEN << "notFound", 0 >>
     ELSE << "ok", i >>

handleLogin(t, email) ==
  /\ loginShown(t)
  /\ noEarlierTimer(t)
  /\ LET dec == loginDecision(users, email)
     IN IF dec[1] = "ok"
          THEN /\ allocations' = ensureMonthlyAllocation(allocations,
                                   users[dec[2]].id, getCurrentMonth)
               /\ onLogin(t, users[dec[2]].id)
               /\ last' = Did("handleLogin", << email, "ok" >>)
          ELSE /\ last' = Did("handleLogin", << email, dec[1] >>)
               /\ UNCHANGED <<allocations, storedUser, tab, draft, dashboard>>
  /\ UNCHANGED <<now, users, assignments, storedConfig, dlg, pending, transfers>>

\* the three demo buttons of the login screen
DemoEmails == {"admin@sistema.local", "maria.garcia@grupoprominente.com",
               "ana.rodriguez@grupoprominente.com"}

handleDemoLogin(t, userEmail) ==
  /\ loginShown(t)
  /\ LET i == findUserByEmail(users, userEmail)
     IN IF i > 0
          THEN /\ allocations' = ensureMonthlyAllocation(allocations,
                                   users[i].id, getCurrentMonth)
               /\ onLogin(t, users[i].id)
               /\ last' = Did("handleDemoLogin", << userEmail, "ok" >>)
          ELSE /\ last' = Did("handleDemoLogin", << userEmail, "none" >>)
               /\ UNCHANGED <<allocations, storedUser, tab, draft, dashboard>>
  /\ UNCHANGED <<now, users, assignments, storedConfig, dlg, pending, transfers>>

(***************************************************************************)
(* AssignPoints.tsx                                                        *)
(***************************************************************************)
\* the point buttons of the dialog
PointButtons == {1, 2, 3, 5}

\* systemConfig.categories.filter(cat => cat.enabled), as names
enabledCategories(stored) ==
  LET cats == getSystemConfig(stored).categories
  IN {cats[i].name : i \in {j \in 1..Len(cats) : cats[j].enabled}}

\* allocation?.pointsRemaining || 0
readAvailablePoints(allocs, userId, month) ==
  IF hasAllocation(allocs, userId, month)
    THEN getUserAllocation(allocs, userId, month).pointsRemaining
    ELSE 0

\* UserDashboard (the dashboard of role employee) mounts the dialog; the
\* mount effect reads the balance of the current month
OpenAssignPoints(t) ==
  /\ tab[t].mounted
  /\ roleOf(users, tab[t].currentUser) = "employee"
  /\ ~dlg[t].open
  /\ dlg' = [dlg EXCEPT ![t] =
               [closedDialog EXCEPT
                  !.open = TRUE,
                  !.availablePoints =
                     readAvailablePoints(allocations, tab[t].currentUser,
                                         getCurrentMonth)]]
  /\ last' = Did("OpenAssignPoints", << >>)
  /\ UNCHANGED <<now, store, tab, pending, draft, dashboard, transfers>>

\* a variant that lists every user, the current one included
otherUsersAll(us, currentUserId) ==
  {us[i].id : i \in 1..Len(us)}

\* allUsers.filter(u => u.id !== currentUser.id), as ids
otherUsers(us, currentUserId) ==
  {us[i].id : i \in {j \in 1..Len(us) : us[j].id # currentUserId}}

validateForm(d) ==
  /\ d.selectedUser # "null"
  /\ d.category # ""
  /\ ~(d.points > d.availablePoints)

\* The form is filled in (recipient u, points p, category c) and Revisar is
\* pressed.  u is one of the other users or nobody; p is the default, the
\* value already set, or a button that is not disabled; c is the value
\* already set or an enabled category of the stored configuration.
handlePreview(t, u, p, c) ==
  /\ dlg[t].open /\ ~dlg[t].showConfirmation /\ ~dlg[t].isSubmitting
  /\ u \in (otherUsers(users, tab[t].currentUser) \cap RecipientInputs)
           \cup {"null"}
  /\ p \in {1, dlg[t].points} \cup {b \in PointButtons : b <= dlg[t].availablePoints}
  /\ c \in ({dlg[t].category} \ {""}) \cup
           (enabledCategories(storedConfig) \cap CategoryInputs)
  /\ dlg[t].availablePoints # 0
  /\ LET d == [dlg[t] EXCEPT !.selectedUser = u, !.points = p, !.category = c]
     IN IF validateForm(d)
          THEN /\ dlg' = [dlg EXCEPT ![t] = [d EXCEPT !.showConfirmation = TRUE]]
               /\ last' = Did("handlePreview", << "ok" >>)
          ELSE /\ dlg' = [dlg EXCEPT ![t] = d]
               /\ last' = Did("handlePreview", << "errors" >>)
  /\ UNCHANGED <<now, store, tab, pending, draft, dashboard, transfers>>

handleBack(t) ==
  /\ dlg[t].open /\ dlg[t].showConfirmation /\ ~dlg[t].isSubmitting
  /\ dlg' = [dlg EXCEPT ![t].showConfirmation = FALSE]
  /\ last' = Did("handleBack", << >>)
  /\ UNCHANGED <<now, store, tab, pending, draft, dashboard, transfers>>

\* Dialog onOpenChange: the dialog is dismissed; a submission that is
\* waiting in its delay is not cancelled
onClose(t) ==
  /\ dlg[t].open
  /\ dlg' = [dlg EXCEPT ![t] = closedDialog]
  /\ last' = Did("onClose", << >>)
  /\ UNCHANGED <<now, store, tab, pending, draft, dashboard, transfers>>

\* handleSubmit up to its await: Confirmar is pressed
handleSubmitStart(t) ==
  /\ dlg[t].open /\ dlg[t].showConfirmation /\ ~dlg[t].isSubmitting
  /\ dlg[t].selectedUser # "null" /\ dlg[t].category # ""
  /\ Len(pending[t]) < MaxPending
  /\ transfers[t] < MaxTransfers
  /\ transfers' = [transfers EXCEPT ![t] = @ + 1]
  /\ dlg' = [dlg EXCEPT ![t].isSubmitting = TRUE]
  /\ pending' = [pending EXCEPT ![t] =
                   Append(@, [fromUserId |-> tab[t].currentUser,
                              toUserId |-> dlg[t].selectedUser,
                              points |-> dlg[t].points,
                              category |-> dlg[t].category])]
  /\ last' = Did("handleSubmitStart", << >>)
  /\ UNCHANGED <<now, store, tab, draft, dashboard>>

\* a variant that debits the oldest record of the sender, whatever its month
debitSenderAnyMonth(allocs, userId, month, points) ==
  LET i == firstOf({j \in 1..Len(allocs) : allocs[j].userId = userId})
  IN IF i > 0
       THEN [allocs EXCEPT ![i].pointsRemaining = @ - points]
       ELSE allocs

debitSender(allocs, userId, month, points) ==
  IF hasAllocation(allocs, userId, month)
    THEN updateAllocation(allocs,
           [getUserAllocation(allocs, userId, month)
              EXCEPT !.pointsRemaining = @ - points])
    ELSE allocs

creditReceiver(allocs, userId, month, points) ==
  IF hasAllocation(allocs, userId, month)
    THEN updateAllocation(allocs,
           [getUserAllocation(allocs, userId, month)
              EXCEPT !.pointsReceived = @ + points])
    ELSE allocs

\* handleSubmit after its await: the three writes, then onSuccess().  The
\* dialog that submitted has isSubmitting set for good, so every button of
\* it is disabled and it can only be dismissed: the step dismisses it.
handleSubmitWrite(t) ==
  /\ pending[t] # << >>
  /\ LET s == Head(pending[t])
         month == getCurrentMonth
         assignment == [fromUserId |-> s.fromUserId, toUserId |-> s.toUserId,
                        points |-> s.points, category |-> s.category,
                        month |-> month]
     IN /\ assignments' = addAssignment(assignments, assignment)
        /\ allocations' =
             creditReceiver(
               debitSender(allocations, s.fromUserId, month, s.points),
               s.toUserId, month, s.points)
        /\ last' = Did("handleSubmit", << assignment >>)
  /\ pending' = [pending EXCEPT ![t] = Tail(@)]
  /\ dlg' = [dlg EXCEPT ![t] = IF @.isSubmitting THEN closedDialog ELSE @]
  /\ UNCHANGED <<now, users, storedUser, storedConfig, tab, draft, dashboard, transfers>>

(***************************************************************************)
(* AdminSettings.tsx                                                       *)
(***************************************************************************)
settingsShown(t) == draft[t] # << >>

categoryNames(config) ==
  {config.categories[i].name : i \in 1..Len(config.categories)}

handleToggleCategory(t, categoryName) ==
  /\ settingsShown(t)
  /\ categoryName \in categoryNames(draft[t][1]) \cap CategoryInputs
  /\ LET config == draft[t][1]
         updatedCategories ==
           [i \in 1..Len(config.categories) |->
              IF config.categories[i].name = categoryName
                THEN [config.categories[i] EXCEPT !.enabled = ~@]
                ELSE config.categories[i]]
     IN draft' = [draft EXCEPT ![t] =
                    << [config EXCEPT !.categories = updatedCategories] >>]
  /\ last' = Did("handleToggleCategory", << categoryName >>)
  /\ UNCHANGED <<now, store, tab, dlg, pending, dashboard, transfers>>

handleRemoveCategory(t, categoryName) ==
  /\ settingsShown(t)
  /\ categoryName \in categoryNames(draft[t][1]) \cap CategoryInputs
  /\ LET config == draft[t][1]
         updatedCategories ==
           SelectSeq(config.categories, LAMBDA cat : cat.name # categoryName)
     IN draft' = [draft EXCEPT ![t] =
                    << [config EXCEPT !.categories = updatedCategories] >>]
  /\ last' = Did("handleRemoveCategory", << categoryName >>)
  /\ UNCHANGED <<now, store, tab, dlg, pending, dashboard, transfers>>

\* handleAddCategory: the name typed is refused when it trims to nothing or
\* when a category has the same lower-cased name as the text typed; the
\* category added carries the trimmed name
handleAddCategory(t, newCategoryName) ==
  /\ settingsShown(t)
  /\ LET config == draft[t][1]
     IN IF trim(newCategoryName) = ""
          THEN /\ last' = Did("handleAddCategory", << newCategoryName, "empty" >>)
               /\ UNCHANGED draft
          ELSE IF \E i \in 1..Len(config.categories) :
                    toLowerCase(config.categories[i].name)
                      = toLowerCase(newCategoryName)
          THEN /\ last' = Did("handleAddCategory", << newCategoryName, "exists" >>)
               /\ UNCHANGED draft
          ELSE /\ Len(config.categories) < MaxCategories
               /\ draft' = [draft EXCEPT ![t] =
                     << [config EXCEPT !.categories =
                           Append(@, [name |-> trim(newCategoryName),
                                      enabled |-> TRUE])] >>]
               /\ last' = Did("handleAddCategory", << newCategoryName, "added" >>)
  /\ UNCHANGED <<now, store, tab, dlg, pending, dashboard, transfers>>

MAX_ONBOARDING_STEPS == 5

newStep ==
  [title |-> "Nuevo Paso", description |-> "Descripción del paso",
   details |-> "Información detallada del paso"]

handleAddOnboardingStep(t) ==
  /\ settingsShown(t)
  /\ LET config == draft[t][1]
     IN IF Len(config.onboardingSteps) >= MAX_ONBOARDING_STEPS
          THEN /\ last' = Did("handleAddOnboardingStep", << "rejected" >>)
               /\ UNCHANGED draft
          ELSE /\ draft' = [draft EXCEPT ![t] =
                     << [config EXCEPT !.onboardingSteps = Append(@, newStep)] >>]
               /\ last' = Did("handleAddOnboardingStep", << "added" >>)
  /\ UNCHANGED <<now, store, tab, dlg, pending, dashboard, transfers>>

\* config.onboardingSteps.filter((_, i) => i !== index), index 0-based
withoutStep(steps, index) ==
  [i \in 1..(Len(steps) - 1) |-> IF i <= index THEN steps[i] ELSE steps[i + 1]]

\* a variant that removes the step however many are left
removeOnboardingStepAlways(steps, index) ==
  withoutStep(steps, index)

\* the steps handleRemoveOnboardingStep leaves in the draft
removeOnboardingStep(steps, index) ==
  IF Len(steps) <= 1 THEN steps ELSE withoutStep(steps, index)

\* the remove button of the step at index (there is one per step)
handleRemoveOnboardingStep(t, index) ==
  /\ settingsShown(t)
  /\ index < Len(draft[t][1].onboardingSteps)
  /\ LET config == draft[t][1]
     IN /\ draft' = [draft EXCEPT ![t] =
              << [config EXCEPT !.onboardingSteps =
                    removeOnboardingStep(@, index)] >>]
        /\ last' = Did("handleRemoveOnboardingStep",
                       << index, IF Len(config.onboardingSteps) <= 1
                                   THEN "rejected" ELSE "removed" >>)
  /\ UNCHANGED <<now, store, tab, dlg, pending, dashboard, transfers>>

\* the value handleUpdateEmailConfig gives to setConfig: the config of the
\* render it was created in, with one field of emailNotifications replaced
handleUpdateEmailConfig(config, field, value) ==
  [config EXCEPT !.emailNotifications = [@ EXCEPT ![field] = value]]

\* the calls handleSMTPProviderChange makes, as <<field, value>> pairs
providerUpdates(provider) ==
  << << "smtpProvider", provider >> >> \o
  CASE provider = "gmail" ->
         << << "smtpHost", "smtp.gmail.com" >>, << "smtpPort", 587 >> >>
    [] provider = "outlook" ->
         << << "smtpHost", "smtp.office365.com" >>, << "smtpPort", 587 >> >>
    [] provider = "sendgrid" ->
         << << "smtpHost", "smtp.sendgrid.net" >>, << "smtpPort", 587 >> >>
    [] OTHER -> << >>

\* Every call of handleUpdateEmailConfig in the handler spreads the config
\* of the current render and passes the result to setConfig; the state of
\* the next render is the value of the last setConfig.
handleSMTPProviderChange(t, provider) ==
  /\ settingsShown(t)
  /\ LET config == draft[t][1]
         updates == providerUpdates(provider)
         setConfigs == [i \in 1..Len(updates) |->
                          handleUpdateEmailConfig(config, updates[i][1],
                                                  updates[i][2])]
     IN draft' = [draft EXCEPT ![t] = << setConfigs[Len(setConfigs)] >>]
  /\ last' = Did("handleSMTPProviderChange", << provider >>)
  /\ UNCHANGED <<now, store, tab, dlg, pending, dashboard, transfers>>

\* a variant that accepts every draft
saveOutcomeUnchecked(config) == "saved"

\* the two checks handleSaveConfig makes before it writes
saveOutcome(config) ==
  IF Len(SelectSeq(config.categories, LAMBDA cat : cat.enabled)) = 0
    THEN "noCategory"
  ELSE IF Len(config.onboardingSteps) = 0 THEN "noStep"
  ELSE "saved"

handleSaveConfig(t) ==
  /\ settingsShown(t)
  /\ LET config == draft[t][1]
     IN IF saveOutcome(config) # "saved"
          THEN /\ last' = Did("handleSaveConfig", << saveOutcome(config) >>)
               /\ UNCHANGED <<storedConfig, dashboard>>
          ELSE /\ storedConfig' = setSystemConfig(config)
               /\ dashboard' = [dashboard EXCEPT ![t] =
                     << loadData(users, allocations, assignments,
                                 getCurrentMonth) >>]
               /\ last' = Did("handleSaveConfig", << "saved" >>)
  /\ UNCHANGED <<now, users, allocations, assignments, storedUser, tab, dlg,
                 pending, draft, transfers>>

\* const users = storage.getUsers().filter(u => u.role === 'employee')
employees(us) == {us[i].id : i \in {j \in 1..Len(us) : us[j].role = "employee"}}

RECURSIVE SetToSeq(_)
SetToSeq(S) ==
  IF S = {} THEN << >>
  ELSE LET x == CHOOSE y \in S : TRUE IN << x >> \o SetToSeq(S \ {x})

\* a variant that restores the budget whatever the reset type
resetAllocationTotal(allocation, resetType) ==
  [allocation EXCEPT !.pointsRemaining = 10, !.pointsReceived = 0]

resetAllocation(allocation, resetType) ==
  IF resetType = "total"
    THEN [allocation EXCEPT !.pointsRemaining = 10, !.pointsReceived = 0]
    ELSE [allocation EXCEPT !.pointsReceived = 0]

\* a variant that resets the records of the selected users in every month
resetAllocationsAnyMonth(allocs, selected, month, resetType) ==
  [i \in 1..Len(allocs) |->
     IF \E k \in 1..Len(selected) : selected[k] = allocs[i].userId
       THEN resetAllocation(allocs[i], resetType)
       ELSE allocs[i]]

\* selectedUsers.forEach(userId => { ... storage.updateAllocation(allocation) })
RECURSIVE resetAllocations(_, _, _, _)
resetAllocations(allocs, selected, month, resetType) ==
  IF selected = << >> THEN allocs
  ELSE LET userId == Head(selected)
           next == IF hasAllocation(allocs, userId, month)
                     THEN updateAllocation(allocs,
                            resetAllocation(
                              getUserAllocation(allocs, userId, month),
                              resetType))
                     ELSE allocs
       IN resetAllocations(next, Tail(selected), month, resetType)

\* a variant that drops only what the selected users received
filterAssignmentsReceivedOnly(asgs, selected, month) ==
  SelectSeq(asgs, LAMBDA a : a.month # month \/ a.toUserId \notin selected)

filterAssignments(asgs, selected, month) ==
  SelectSeq(asgs, LAMBDA a :
    a.month # month \/ (a.toUserId \notin selected /\ a.fromUserId \notin selected))

\* Resetear Puntos with the employees S ticked and the reset type chosen
handleResetPoints(t, S, resetType) ==
  /\ settingsShown(t)
  /\ S \subseteq employees(users) \cap ResetInputs
  /\ IF S = {}
       THEN /\ last' = Did("handleResetPoints", << S, resetType >>)
            /\ UNCHANGED <<allocations, assignments, dashboard>>
       ELSE LET month == getCurrentMonth
                allocs == resetAllocations(allocations, SetToSeq(S), month,
                                           resetType)
                asgs == IF resetType = "total"
                          THEN filterAssignments(assignments, S, month)
                          ELSE assignments
            IN /\ allocations' = allocs
               /\ assignments' = asgs
               /\ dashboard' = [dashboard EXCEPT ![t] =
                     << loadData(users, allocs, asgs, month) >>]
               /\ last' = Did("handleResetPoints", << S, resetType >>)
  /\ UNCHANGED <<now, users, storedUser, storedConfig, tab, dlg, pending, draft,
                 transfers>>

(***************************************************************************)
(* Specification                                                           *)
(***************************************************************************)
\* One browser tab, the months passing: the ledger
Next ==
  \/ AdvanceMonth
  \/ AppMount("A")
  \/ handleLogout("A")
  \/ \E email \in LoginEmails : handleLogin("A", email)
  \/ OpenAssignPoints("A")
  \/ \E u \in RecipientInputs \cup {"null"}, p \in PointInputs,
        c \in CategoryInputs : handlePreview("A", u, p, c)
  \/ handleSubmitStart("A")
  \/ handleSubmitWrite("A")
  \/ PeopleDashboardEffect("A")
  \/ \E S \in SUBSET ResetInputs, resetType \in {"partial", "total"} :
        handleResetPoints("A", S, resetType)

Spec == Init /\ [][Next]_vars

\* Two browser tabs on the same localStorage within one month: an employee
\* with the dialog open in one tab while the other tab transfers points or
\* the superadmin edits the configuration
NextTabs ==
  \E t \in Tabs :
    \/ AppMount(t)
    \/ handleLogout(t)
    \/ \E email \in LoginEmails : handleLogin(t, email)
    \/ OpenAssignPoints(t)
    \/ \E u \in RecipientInputs, p \in PointInputs, c \in CategoryInputs :
          handlePreview(t, u, p, c)
    \/ handleBack(t)
    \/ onClose(t)
    \/ handleSubmitStart(t)
    \/ handleSubmitWrite(t)
    \/ PeopleDashboardEffect(t)
    \/ \E c \in CategoryInputs : handleToggleCategory(t, c)
    \/ \E c \in CategoryInputs : handleRemoveCategory(t, c)
    \/ handleSaveConfig(t)

SpecTabs == Init /\ [][NextTabs]_vars

(***************************************************************************)
(* Configuration records saved by earlier sessions                         *)
(***************************************************************************)
BackfilledFields == {"onboardingSteps", "loginContent", "emailNotifications"}

savedCategories ==
  << [name |-> "Trabajo en equipo", enabled |-> TRUE],
     [name |-> "Puntualidad", enabled |-> FALSE] >>

savedSteps ==
  << [title |-> "Hola", description |-> "Un solo paso",
      details |-> "Paso guardado por People"] >>

savedLoginContent ==
  [title |-> "Puntos", subtitle |-> "Prominente",
   description |-> "Reconocimientos", helpEmail |-> "ayuda@grupoprominente.com"]

savedEmailNotifications ==
  [getDefaultConfig.emailNotifications EXCEPT
     !.enabled = TRUE, !.smtpProvider = "outlook",
     !.smtpHost = "smtp.office365.com"]

savedRecord(cats, fields, steps) ==
  [f \in {"categories"} \cup fields |->
     CASE f = "categories" -> cats
       [] f = "onboardingSteps" -> steps
       [] f = "loginContent" -> savedLoginContent
       [] f = "emailNotifications" -> savedEmailNotifications]

\* records with any of the three later fields missing; a stored list of
\* steps is the saved one or the default one
SavedConfigs ==
  {savedRecord(cats, fields, steps) :
     cats \in {getDefaultConfig.categories, savedCategories},
     fields \in SUBSET BackfilledFields,
     steps \in {savedSteps, getDefaultConfig.onboardingSteps}}

\* The store an earlier session left: the demo data and a saved (or no)
\* configuration record
InitConfig ==
  LET d == initializeDemoData(<< >>, << >>, << >>, 1)
  IN /\ now = 1
     /\ users = d.users
     /\ allocations = d.allocations
     /\ assignments = d.assignments
     /\ storedUser = "null"
     /\ storedConfig \in {<< >>} \cup {<< c >> : c \in SavedConfigs}
     /\ tab = [t \in Tabs |-> [mounted |-> FALSE, currentUser |-> "null"]]
     /\ dlg = [t \in Tabs |-> closedDialog]
     /\ pending = [t \in Tabs |-> << >>]
     /\ draft = [t \in Tabs |-> << >>]
     /\ dashboard = [t \in Tabs |-> << >>]
     /\ transfers = [t \in Tabs |-> 0]
     /\ last = Did("init", << >>)

\* addresses typed into the login form: the superadmin's in two
\* spellings, an employee's in two spellings, a private one, an unknown one
LoginFormInputs ==
  {"admin@sistema.local", "Admin@Sistema.Local",
   "Juan.Perez@grupoprominente.com", "JUAN.PEREZ@GRUPOPROMINENTE.COM",
   "juan.perez@gmail.com", "nadie@grupoprominente.com"}

\* One tab on that store: the logins, and the superadmin loading and
\* editing the configuration
NextConfig ==
  \/ AppMount("A")
  \/ \E email \in LoginFormInputs : handleLogin("A", email)
  \/ \E email \in DemoEmails : handleDemoLogin("A", email)
  \/ handleLogout("A")
  \/ PeopleDashboardEffect("A")
  \/ \E c \in CategoryInputs : handleToggleCategory("A", c)
  \/ \E c \in CategoryInputs : handleRemoveCategory("A", c)
  \/ \E provider \in SMTPProviders : handleSMTPProviderChange("A", provider)
  \/ handleSaveConfig("A")

SpecConfig == InitConfig /\ [][NextConfig]_vars

\* The store of a session in which People saved two categories, one of
\* them disabled, and a single onboarding step
InitSettings ==
  /\ InitConfig
  /\ storedConfig =
       << savedRecord(savedCategories, BackfilledFields, savedSteps) >>

\* One tab on that store: the superadmin editing the categories and the
\* onboarding steps of the draft and saving it
NextSettings ==
  \/ AppMount("A")
  \/ handleLogin("A", "admin@sistema.local")
  \/ PeopleDashboardEffect("A")
  \/ \E c \in CategoryInputs : handleToggleCategory("A", c)
  \/ \E c \in CategoryInputs : handleRemoveCategory("A", c)
  \/ \E name \in CategoryNameInputs : handleAddCategory("A", name)
  \/ handleAddOnboardingStep("A")
  \/ \E index \in StepIndexInputs : handleRemoveOnboardingStep("A", index)
  \/ handleSaveConfig("A")

SpecSettings == InitSettings /\ [][NextSettings]_vars

\* One tab over the months: the sessions (page loads, form and demo logins,
\* logouts) and the dashboard they lead to
NextLogin ==
  \/ AdvanceMonth
  \/ AppMount("A")
  \/ \E email \in LoginFormInputs : handleLogin("A", email)
  \/ \E email \in DemoEmails : handleDemoLogin("A", email)
  \/ handleLogout("A")
  \/ PeopleDashboardEffect("A")

SpecLogin == Init /\ [][NextLogin]_vars

\* the two employees whose budgets are followed over the months
MonthlyLogins == {"juan.perez@grupoprominente.com",
                  "maria.garcia@grupoprominente.com"}

\* One tab over the months: a sender and a receiver who log in, in some
\* months and not in others, and the transfers between them
NextMonths ==
  \/ AdvanceMonth
  \/ AppMount("A")
  \/ \E email \in MonthlyLogins : handleLogin("A", email)
  \/ handleLogout("A")
  \/ OpenAssignPoints("A")
  \/ \E u \in RecipientInputs, p \in PointInputs, c \in CategoryInputs :
        handlePreview("A", u, p, c)
  \/ onClose("A")
  \/ handleSubmitStart("A")
  \/ handleSubmitWrite("A")

SpecMonths == Init /\ [][NextMonths]_vars

(***************************************************************************)
(* The ledger as the specification reads it                                *)
(***************************************************************************)
RECURSIVE sumPoints(_)
sumPoints(asgs) ==
  IF asgs = << >> THEN 0 ELSE Head(asgs).points + sumPoints(Tail(asgs))

\* points of the assignments user sent in month
sentIn(asgs, userId, month) ==
  sumPoints(SelectSeq(asgs, LAMBDA a : a.fromUserId = userId /\ a.month = month))

\* points of the assignments user received in month
receivedIn(asgs, userId, month) ==
  sumPoints(SelectSeq(asgs, LAMBDA a : a.toUserId = userId /\ a.month = month))

\* pointsRemaining(U,M) and pointsReceived(U,M); a user without a record
\* for the month has the balances the record would be created with
pointsRemaining(allocs, userId, month) ==
  IF hasAllocation(allocs, userId, month)
    THEN getUserAllocation(allocs, userId, month).pointsRemaining
    ELSE 10

pointsReceived(allocs, userId, month) ==
  IF hasAllocation(allocs, userId, month)
    THEN getUserAllocation(allocs, userId, month).pointsReceived
    ELSE 0

\* this step is the write of a handleSubmit call of tab t
SubmitWrites(t) ==
  /\ last'.op = "handleSubmit"
  /\ pending[t] # << >>
  /\ pending'[t] = Tail(pending[t])

\* this step is a reset that was not rejected
ResetRuns(resetType) ==
  /\ last'.op = "handleResetPoints"
  /\ last'.args[1] # {}
  /\ last'.args[2] = resetType

(***************************************************************************)
(* C1: every submitted transfer of P points from A to B in the current     *)
(* month M lowers pointsRemaining(A,M) by P, raises pointsReceived(B,M) by *)
(* P and appends exactly one record with those parties, points, category   *)
(* and month, whatever records A and B have for M.                         *)
(***************************************************************************)
C1_TransferMovesPoints ==
  [][\A t \in Tabs : SubmitWrites(t) =>
       LET s == Head(pending[t])
           a == [fromUserId |-> s.fromUserId, toUserId |-> s.toUserId,
                 points |-> s.points, category |-> s.category, month |-> now]
       IN /\ assignments' = Append(assignments, a)
          /\ pointsRemaining(allocations', a.fromUserId, now)
               = pointsRemaining(allocations, a.fromUserId, now) - a.points
          /\ pointsReceived(allocations', a.toUserId, now)
               = pointsReceived(allocations, a.toUserId, now) + a.points]_vars

(***************************************************************************)
(* C2: a transfer of more points than the sender's stored pointsRemaining  *)
(* of the current month, at the moment it is submitted, changes neither    *)
(* the allocations nor the assignments.                                    *)
(***************************************************************************)
C2_OverdraftRejected ==
  [][\A t \in Tabs :
       (/\ SubmitWrites(t)
        /\ Head(pending[t]).points
             > pointsRemaining(allocations, Head(pending[t]).fromUserId, now))
       => (allocations' = allocations /\ assignments' = assignments)]_vars

(***************************************************************************)
(* C3: for every user U and month M with an allocation,                    *)
(* pointsRemaining(U,M) plus the points U sent in M is 10.                 *)
(***************************************************************************)
C3_RemainingPlusSentIsTen ==
  \A i \in 1..Len(allocations) :
    allocations[i].pointsRemaining
      + sentIn(assignments, allocations[i].userId, allocations[i].month) = 10

(***************************************************************************)
(* C4: for every user U and month M with an allocation, pointsReceived(U,M)*)
(* is the sum of the points of the assignments to U in M.                  *)
(***************************************************************************)
C4_ReceivedIsSumOfAssignments ==
  \A i \in 1..Len(allocations) :
    allocations[i].pointsReceived
      = receivedIn(assignments, allocations[i].userId, allocations[i].month)

(***************************************************************************)
(* C5: every allocation record has pointsRemaining >= 0.                   *)
(***************************************************************************)
C5_RemainingNeverNegative ==
  \A i \in 1..Len(allocations) : allocations[i].pointsRemaining >= 0

(***************************************************************************)
(* C6: a total reset of the selected users S in the current month M leaves *)
(* every user of S with pointsReceived(U,M) = 0 and pointsRemaining(U,M) = *)
(* 10, removes every assignment of month M sent or received by a user of   *)
(* S, and retains, in order, the assignments of other months and those of  *)
(* month M between two users outside S.                                    *)
(***************************************************************************)
C6_TotalReset ==
  [][ResetRuns("total") =>
       LET S == last'.args[1]
           kept(a) == a.month # now \/ (a.fromUserId \notin S /\ a.toUserId \notin S)
       IN /\ \A u \in S :
               /\ pointsRemaining(allocations', u, now) = 10
               /\ pointsReceived(allocations', u, now) = 0
               /\ hasAllocation(allocations, u, now)
                    => hasAllocation(allocations', u, now)
          /\ \A i \in 1..Len(assignments') : kept(assignments'[i])
          /\ assignments' = SelectSeq(assignments, kept)]_vars

\* a total reset of María ran: her record is back at (10, 0) after she had
\* spent and received points, and an assignment between two others is kept
C6_Witness ==
  /\ last = Did("handleResetPoints", << {"1"}, "total" >>)
  /\ hasAllocation(allocations, "1", now)
  /\ getUserAllocation(allocations, "1", now).pointsRemaining = 10
  /\ getUserAllocation(allocations, "1", now).pointsReceived = 0
  /\ \E i \in 1..Len(assignments) :
       assignments[i].month = now /\ assignments[i].fromUserId = "5"

(***************************************************************************)
(* C7: ensureMonthlyAllocation(user) in the current month M returns the    *)
(* store unchanged when (user, M) has a record, and otherwise adds exactly *)
(* one record (user, M, 10, 0); it never resets a balance already spent or *)
(* received, never changes the record of another user or month, and a      *)
(* second call changes nothing.                                            *)
(***************************************************************************)
C7_EnsureAllocation ==
  \A u \in UserIds :
    LET r == ensureMonthlyAllocation(allocations, u, now)
    IN /\ hasAllocation(allocations, u, now) => r = allocations
       /\ ~hasAllocation(allocations, u, now) =>
            /\ Len(r) = Len(allocations) + 1
            /\ SubSeq(r, 1, Len(allocations)) = allocations
            /\ r[Len(r)] = [userId |-> u, month |-> now,
                            pointsRemaining |-> 10, pointsReceived |-> 0]
       /\ \A i \in 1..Len(allocations) : r[i] = allocations[i]
       /\ ensureMonthlyAllocation(r, u, now) = r

\* Juan logged in again after he had spent points this month, while another
\* user (the superadmin) has no record for the month yet
C7_Witness ==
  /\ last.op = "handleLogin" /\ last.args[2] = "ok"
  /\ tab["A"].currentUser = "2"
  /\ hasAllocation(allocations, "2", now)
  /\ getUserAllocation(allocations, "2", now).pointsRemaining < 10
  /\ ~hasAllocation(allocations, "admin", now)

(***************************************************************************)
(* C8: an operation that needs an allocation that does not exist for       *)
(* (user, current month) creates it with (10, 0): after a transfer is      *)
(* written the sender and the receiver have a record for the month, and    *)
(* after a reset every selected user has one.                              *)
(***************************************************************************)
C8_MissingAllocationCreated ==
  [][/\ \A t \in Tabs : SubmitWrites(t) =>
          /\ hasAllocation(allocations', Head(pending[t]).fromUserId, now)
          /\ hasAllocation(allocations', Head(pending[t]).toUserId, now)
     /\ \A rt \in {"partial", "total"} : ResetRuns(rt) =>
          \A u \in last'.args[1] : hasAllocation(allocations', u, now)]_vars

(***************************************************************************)
(* C9: every assignment written by a transfer has a category that is       *)
(* present and enabled in the persisted configuration at the moment it is  *)
(* written.                                                                *)
(***************************************************************************)
C9_CategoryEnabledWhenWritten ==
  [][\A t \in Tabs : SubmitWrites(t) =>
       Head(pending[t]).category \in enabledCategories(storedConfig)]_vars

(***************************************************************************)
(* C10: getSystemConfig on a stored record returns the record with each of *)
(* onboardingSteps, loginContent and emailNotifications that is missing    *)
(* replaced by its default (the four default steps) and every field that   *)
(* is present, categories included, exactly as stored.                     *)
(***************************************************************************)
C10_BackfillKeepsStoredFields ==
  storedConfig # << >> =>
    LET stored == storedConfig[1]
        config == getSystemConfig(storedConfig)
    IN /\ DOMAIN config = (DOMAIN stored) \cup BackfilledFields
       /\ \A f \in DOMAIN stored : config[f] = stored[f]
       /\ \A f \in BackfilledFields \ DOMAIN stored :
            config[f] = getDefaultConfig[f]
       /\ "onboardingSteps" \notin DOMAIN stored =>
            Len(config.onboardingSteps) = 4

\* the superadmin's settings were loaded from a record that lacks
\* onboardingSteps and has its own categories and login content
C10_Witness ==
  /\ last.op = "loadData"
  /\ draft["A"] # << >>
  /\ storedConfig # << >>
  /\ DOMAIN storedConfig[1] = {"categories", "loginContent"}
  /\ draft["A"][1].onboardingSteps = getDefaultConfig.onboardingSteps
  /\ draft["A"][1].loginContent = savedLoginContent
  /\ draft["A"][1].categories = savedCategories

(***************************************************************************)
(* The report as the specification reads it                                *)
(***************************************************************************)
\* this step loads (or reloads) the report of tab t: the dashboard timer
\* of the tab, or a reset or a save of the only tab that shows the settings
ReportLoads(t) ==
  /\ last'.op \in {"loadData", "handleResetPoints", "handleSaveConfig"}
  /\ dashboard'[t] # << >>
  /\ \/ dashboard'[t] # dashboard[t]
     \/ last' = Did("loadData", << t >>)
     \/ /\ \/ ResetRuns("partial")
           \/ ResetRuns("total")
           \/ last' = Did("handleSaveConfig", << "saved" >>)
        /\ draft[t] # << >>
        /\ \A o \in Tabs \ {t} : draft[o] = << >>

\* the sum of the values of a map
RECURSIVE sumValues(_)
sumValues(f) ==
  IF DOMAIN f = {} THEN 0
  ELSE LET c == CHOOSE x \in DOMAIN f : TRUE
       IN f[c] + sumValues([x \in (DOMAIN f) \ {c} |-> f[x]])

\* the positions of the assignments to userId in month
receivedAt(asgs, userId, month) ==
  {k \in 1..Len(asgs) : asgs[k].toUserId = userId /\ asgs[k].month = month}

(***************************************************************************)
(* C11: the report row loadData computes for each user U has               *)
(* pointsReceived = the sum of the points of the current-month assignments *)
(* to U, recognitionCount = their number, pointsGiven = 10 minus U's       *)
(* pointsRemaining (0 without an allocation) and a categoryBreakdown that  *)
(* maps each category U received in to the points received in it, whose    *)
(* values sum to pointsReceived; assignments of other months count nothing.*)
(***************************************************************************)
C11_ReportRows ==
  [][\A t \in Tabs : ReportLoads(t) =>
       LET d == dashboard'[t][1]
       IN /\ Len(d.reportData) = Len(users')
          /\ \A i \in 1..Len(users') :
               LET row == d.reportData[i]
                   u == users'[i].id
                   at == receivedAt(assignments', u, now')
               IN /\ row.userId = u
                  /\ row.pointsReceived = receivedIn(assignments', u, now')
                  /\ row.recognitionCount = Cardinality(at)
                  /\ row.pointsGiven =
                       IF hasAllocation(allocations', u, now')
                         THEN 10 - pointsRemaining(allocations', u, now')
                         ELSE 0
                  /\ DOMAIN row.categoryBreakdown =
                       {assignments'[k].category : k \in at}
                  /\ \A c \in DOMAIN row.categoryBreakdown :
                       row.categoryBreakdown[c] =
                         sumPoints(SelectSeq(assignments', LAMBDA a :
                           a.toUserId = u /\ a.month = now' /\ a.category = c))
                  /\ sumValues(row.categoryBreakdown) = row.pointsReceived]_vars

\* the report was loaded in month 2 after Juan sent María 5 points: her row
\* counts that one assignment and none of the two she received in month 1
C11_Witness ==
  /\ last = Did("loadData", << "A" >>)
  /\ now = 2
  /\ receivedAt(assignments, "1", 1) # {}
  /\ \E i \in 1..Len(users) :
       /\ users[i].id = "1"
       /\ dashboard["A"][1].reportData[i].pointsReceived = 5
       /\ dashboard["A"][1].reportData[i].recognitionCount = 1
       /\ dashboard["A"][1].reportData[i].categoryBreakdown
            = [c \in {"Trabajo en equipo"} |-> 5]

(***************************************************************************)
(* C12: the report is a function of the users and the assignments alone:   *)
(* in every report that is loaded, pointsGiven of each user U is the sum   *)
(* of the points of the current-month assignments U sent, whatever the     *)
(* allocation records contain.                                             *)
(***************************************************************************)
C12_ReportFromAssignments ==
  [][\A t \in Tabs : ReportLoads(t) =>
       \A i \in 1..Len(users') :
         dashboard'[t][1].reportData[i].pointsGiven
           = sentIn(assignments', users'[i].id, now')]_vars

(***************************************************************************)
(* C13: a form login with an address that does not end in                  *)
(* '@grupoprominente.com' (and is not a superadmin's) or that matches no   *)
(* registered user is rejected: onLogin is not called, the stored current  *)
(* user and every other record stay as they are.  A registered user who is *)
(* not a superadmin is logged in only with an address that ends in the     *)
(* corporate domain.                                                       *)
(***************************************************************************)
C13_LoginRejected ==
  [][last'.op = "handleLogin" =>
       LET email == last'.args[1]
           i == findUserIgnoringCase(users, email)
           superadmin == i > 0 /\ users[i].role = "superadmin"
           rejected == (~endsWithCorporateDomain(email) /\ ~superadmin) \/ i = 0
       IN /\ rejected =>
               /\ last'.args[2] # "ok"
               /\ store' = store
               /\ tab' = tab
          /\ ~rejected =>
               /\ last'.args[2] = "ok"
               /\ storedUser' = users[i].id
          /\ (last'.args[2] = "ok" /\ ~superadmin) =>
               endsWithCorporateDomain(email)]_vars

\* Juan's address in capitals was typed: it matches his user record but
\* does not end in the corporate domain, and nobody is logged in
C13_Witness ==
  /\ last = Did("handleLogin", << "JUAN.PEREZ@GRUPOPROMINENTE.COM", "notCorporate" >>)
  /\ storedUser = "null"
  /\ tab["A"].currentUser = "null"
  /\ findUserIgnoringCase(users, "JUAN.PEREZ@GRUPOPROMINENTE.COM") > 0

(***************************************************************************)
(* C14: every successful login, by the form or by a demo button, leaves an *)
(* allocation of the user for the current month in the store: created     *)
(* with (10, 0) if there was none, untouched if there was one.  No step    *)
(* removes an allocation, so the user who logged in during month M keeps   *)
(* the record for M.                                                       *)
(***************************************************************************)
C14_LoginEnsuresAllocation ==
  [][/\ (last'.op \in {"handleLogin", "handleDemoLogin"} /\ last'.args[2] = "ok") =>
          LET u == storedUser'
          IN /\ \E t \in Tabs : tab'[t].currentUser = u /\ tab[t].currentUser = "null"
             /\ hasAllocation(allocations', u, now')
             /\ hasAllocation(allocations, u, now) => allocations' = allocations
             /\ ~hasAllocation(allocations, u, now) =>
                  allocations' = Append(allocations,
                    [userId |-> u, month |-> now, pointsRemaining |-> 10,
                     pointsReceived |-> 0])
     /\ \A i \in 1..Len(allocations) :
          /\ i <= Len(allocations')
          /\ allocations'[i].userId = allocations[i].userId
          /\ allocations'[i].month = allocations[i].month]_vars

\* María pressed her demo button in month 2: a record (10, 0) for month 2
\* was created and her month 1 record, spent and credited, is as it was
C14_Witness ==
  /\ last = Did("handleDemoLogin", << "maria.garcia@grupoprominente.com", "ok" >>)
  /\ now = 2
  /\ tab["A"].currentUser = "1"
  /\ hasAllocation(allocations, "1", 2)
  /\ getUserAllocation(allocations, "1", 2) = newAllocation("1", 2)
  /\ hasAllocation(allocations, "1", 1)
  /\ getUserAllocation(allocations, "1", 1).pointsRemaining = 8
  /\ getUserAllocation(allocations, "1", 1).pointsReceived = 5

(***************************************************************************)
(* C15: the allocation collection holds at most one record per             *)
(* (userId, month): updateAllocation replaces the record of the same key   *)
(* and appends only when there is none, and no sequence of seed, login,    *)
(* transfer and reset produces two records with the same key.              *)
(***************************************************************************)
C15_OneRecordPerKey ==
  /\ \A i, j \in 1..Len(allocations) :
       (allocations[i].userId = allocations[j].userId
          /\ allocations[i].month = allocations[j].month) => i = j
  /\ \A i \in 1..Len(allocations) :
       LET r == updateAllocation(allocations,
                  [allocations[i] EXCEPT !.pointsReceived = @ + 1])
       IN Len(r) = Len(allocations) /\ r[i].pointsReceived = allocations[i].pointsReceived + 1
  /\ \A u \in UserIds :
       ~hasAllocation(allocations, u, now) =>
         updateAllocation(allocations, newAllocation(u, now))
           = Append(allocations, newAllocation(u, now))

\* a transfer was written in month 2: Juan's record of the month was
\* replaced (10 - 5), his record of month 1 is still there, and the
\* superadmin has no record for month 2
C15_Witness ==
  /\ last.op = "handleSubmit"
  /\ now = 2
  /\ hasAllocation(allocations, "2", 2)
  /\ getUserAllocation(allocations, "2", 2).pointsRemaining = 5
  /\ hasAllocation(allocations, "2", 1)
  /\ ~hasAllocation(allocations, "admin", 2)

(***************************************************************************)
(* C16: the assignment collection is an append-only log: apart from the    *)
(* total reset, no step (transfer, login, partial reset, config save,      *)
(* loading the page on a seeded store) removes, reorders or modifies an    *)
(* existing record; a transfer appends exactly one record at the end.      *)
(***************************************************************************)
C16_AppendOnlyLog ==
  [][/\ ~ResetRuns("total") =>
          /\ Len(assignments') >= Len(assignments)
          /\ SubSeq(assignments', 1, Len(assignments)) = assignments
     /\ (\E t \in Tabs : SubmitWrites(t)) =>
          Len(assignments') = Len(assignments) + 1
     /\ (last'.op # "handleSubmit" /\ ~ResetRuns("total") /\ Len(users) > 0) =>
          assignments' = assignments]_vars

\* a partial reset of María ran on a log that holds the four seeded
\* assignments and a transfer to her: all five are still there
C16_Witness ==
  /\ last = Did("handleResetPoints", << {"1"}, "partial" >>)
  /\ Len(assignments) = 5
  /\ SubSeq(assignments, 1, 4) = demoAssignments(1)
  /\ assignments[5].toUserId = "1"

(***************************************************************************)
(* C17: a partial reset of the selected users S sets pointsReceived to 0   *)
(* in the current-month allocation of each user of S and changes nothing   *)
(* else: their pointsRemaining, the whole assignment collection, and the   *)
(* allocations of users outside S and of other months stay as they are.    *)
(***************************************************************************)
C17_PartialResetFrame ==
  [][ResetRuns("partial") =>
       LET S == last'.args[1]
       IN /\ assignments' = assignments
          /\ users' = users
          /\ storedUser' = storedUser
          /\ storedConfig' = storedConfig
          /\ Len(allocations') = Len(allocations)
          /\ \A i \in 1..Len(allocations) :
               IF allocations[i].userId \in S /\ allocations[i].month = now
                 THEN /\ allocations'[i].pointsReceived = 0
                      /\ allocations'[i].pointsRemaining
                           = allocations[i].pointsRemaining
                      /\ allocations'[i].userId = allocations[i].userId
                      /\ allocations'[i].month = allocations[i].month
                 ELSE allocations'[i] = allocations[i]]_vars

\* a partial reset of María and Juan ran in month 1: they keep the 8 and 7
\* points they have left, what they received reads 0, and Carlos (id 4),
\* who was not selected, still has the 2 points he received
C17_Witness ==
  /\ last = Did("handleResetPoints", << {"1", "2"}, "partial" >>)
  /\ now = 1
  /\ getUserAllocation(allocations, "1", 1).pointsRemaining = 8
  /\ getUserAllocation(allocations, "1", 1).pointsReceived = 0
  /\ getUserAllocation(allocations, "2", 1).pointsRemaining = 7
  /\ getUserAllocation(allocations, "2", 1).pointsReceived = 0
  /\ getUserAllocation(allocations, "4", 1).pointsReceived = 2
  /\ Len(assignments) = 4

(***************************************************************************)
(* C18: the budget is per month.  The first allocation a user gets for a   *)
(* month starts at (10, 0) whatever the user's balances of earlier months  *)
(* were; the records of other months are left unchanged by it; and a       *)
(* transfer made in a month debits and credits only the records of that    *)
(* month.                                                                  *)
(***************************************************************************)
C18_MonthlyBudget ==
  [][/\ \A i \in 1..Len(allocations) :
          allocations[i].month # now =>
            (i <= Len(allocations') /\ allocations'[i] = allocations[i])
     /\ Len(users) > 0 =>
          \A i \in (Len(allocations) + 1)..Len(allocations') :
            /\ allocations'[i].month = now
            /\ allocations'[i].pointsRemaining = 10
            /\ allocations'[i].pointsReceived = 0
     /\ \A t \in Tabs : SubmitWrites(t) =>
          /\ Len(allocations') = Len(allocations)
          /\ \A i \in 1..Len(allocations) :
               allocations'[i] # allocations[i] =>
                 /\ allocations[i].month = now
                 /\ allocations[i].userId
                      \in {Head(pending[t]).fromUserId, Head(pending[t]).toUserId}]_vars

\* in month 2 María and Juan logged in and Juan sent her 5 points: their
\* records of month 2 read (10, 5) and (5, 0), those of month 1 are as the
\* seed left them, (8, 5) and (7, 4)
C18_Witness ==
  /\ last.op = "handleSubmit"
  /\ now = 2
  /\ hasAllocation(allocations, "1", 2) /\ hasAllocation(allocations, "2", 2)
  /\ getUserAllocation(allocations, "1", 2).pointsRemaining = 10
  /\ getUserAllocation(allocations, "1", 2).pointsReceived = 5
  /\ getUserAllocation(allocations, "2", 2).pointsRemaining = 5
  /\ getUserAllocation(allocations, "2", 2).pointsReceived = 0
  /\ getUserAllocation(allocations, "1", 1).pointsRemaining = 8
  /\ getUserAllocation(allocations, "1", 1).pointsReceived = 5
  /\ getUserAllocation(allocations, "2", 1).pointsRemaining = 7
  /\ getUserAllocation(allocations, "2", 1).pointsReceived = 4

(***************************************************************************)
(* C19: a logged-in user of role people can administer the configuration:  *)
(* once the People dashboard has loaded, the admin settings (categories,   *)
(* config save, point reset) are there for role people as they are for     *)
(* role superadmin.                                                        *)
(***************************************************************************)
C19_PeopleAdministers ==
  \A t \in Tabs :
    (dashboardShown(t) /\ dashboard[t] # << >>) => settingsShown(t)

(***************************************************************************)
(* C20: points are given anonymously: what a recipient obtains about the   *)
(* points received, storage.getReceivedPoints of the recipient's id, is    *)
(* the same in two states that differ only in the sender of an assignment  *)
(* addressed to the recipient.                                             *)
(***************************************************************************)
C20_SenderNotVisible ==
  \A k \in 1..Len(assignments) :
    \A f \in UserIds \ {assignments[k].toUserId} :
      getReceivedPoints([assignments EXCEPT ![k].fromUserId = f],
                        assignments[k].toUserId)
        = getReceivedPoints(assignments, assignments[k].toUserId)

(***************************************************************************)
(* C21: initializeDemoData on an empty store leaves a consistent ledger:   *)
(* the nine demo users, one current-month allocation for each, exactly the *)
(* four demo assignments, and for every user pointsRemaining = 10 minus    *)
(* the demo points sent and pointsReceived = the demo points received      *)
(* (user 2: 7 and 4; user 1: 8 and 5; user 5: 6 and 0).                    *)
(***************************************************************************)
C21_SeedConsistent ==
  [][(last'.op = "AppMount" /\ Len(users) = 0) =>
       /\ Len(users') = 9
       /\ Cardinality({users'[i].id : i \in 1..Len(users')}) = 9
       /\ Len(allocations') = 9
       /\ Len(assignments') = 4
       /\ \A i \in 1..Len(assignments') : assignments'[i].month = now
       /\ \A i \in 1..Len(users') :
            LET u == users'[i].id
            IN /\ hasAllocation(allocations', u, now)
               /\ getUserAllocation(allocations', u, now).pointsRemaining
                    = 10 - sentIn(assignments', u, now)
               /\ getUserAllocation(allocations', u, now).pointsReceived
                    = receivedIn(assignments', u, now)
       /\ getUserAllocation(allocations', "2", now).pointsRemaining = 7
       /\ getUserAllocation(allocations', "2", now).pointsReceived = 4
       /\ getUserAllocation(allocations', "1", now).pointsRemaining = 8
       /\ getUserAllocation(allocations', "1", now).pointsReceived = 5
       /\ getUserAllocation(allocations', "5", now).pointsRemaining = 6
       /\ getUserAllocation(allocations', "5", now).pointsReceived = 0]_vars

\* the page was first loaded in month 2: the store was seeded for month 2
C21_Witness ==
  /\ last.op = "AppMount"
  /\ now = 2
  /\ Len(users) = 9 /\ Len(assignments) = 4 /\ Len(allocations) = 9
  /\ assignments[3].month = 2
  /\ getUserAllocation(allocations, "2", 2).pointsRemaining = 7
  /\ ~hasAllocation(allocations, "2", 1)

(***************************************************************************)
(* C22: initializeDemoData is a no-op once users exist: a page load on a   *)
(* store whose user collection is not empty leaves users, allocations,     *)
(* assignments, current user and configuration unchanged, so reloading     *)
(* never seeds again and never overwrites the ledger.                      *)
(***************************************************************************)
C22_SeedOnce ==
  [][(last'.op = "AppMount" /\ Len(users) > 0) =>
       /\ users' = users
       /\ allocations' = allocations
       /\ assignments' = assignments
       /\ storedUser' = storedUser
       /\ storedConfig' = storedConfig]_vars

\* the page was reloaded after Juan had sent María 5 points and a reset
\* had cleared what he received: the five assignments and the balances are
\* still there
C22_Witness ==
  /\ last.op = "AppMount"
  /\ Len(assignments) = 5
  /\ assignments[5].fromUserId = "2"
  /\ hasAllocation(allocations, "2", now)
  /\ getUserAllocation(allocations, "2", now).pointsRemaining = 2
  /\ getUserAllocation(allocations, "2", now).pointsReceived = 0

(***************************************************************************)
(* The admin draft as the specification reads it                           *)
(***************************************************************************)
enabledCount(config) ==
  Cardinality({i \in 1..Len(config.categories) : config.categories[i].enabled})

(***************************************************************************)
(* C23: handleSaveConfig persists the draft only if it has at least one    *)
(* enabled category and at least one onboarding step, and otherwise leaves *)
(* the persisted configuration as it was; so the configuration that        *)
(* getSystemConfig returns has, in every state, at least one enabled       *)
(* category and at least one onboarding step.                              *)
(***************************************************************************)
C23_SaveValidated ==
  /\ [](/\ enabledCount(getSystemConfig(storedConfig)) >= 1
        /\ Len(getSystemConfig(storedConfig).onboardingSteps) >= 1)
  /\ [][last'.op = "handleSaveConfig" =>
         LET config == draft["A"][1]
         IN IF enabledCount(config) >= 1 /\ Len(config.onboardingSteps) >= 1
              THEN /\ last'.args = << "saved" >>
                   /\ storedConfig' = << config >>
              ELSE /\ last'.args # << "saved" >>
                   /\ storedConfig' = storedConfig]_vars

\* the save of a draft whose only enabled category was switched off is
\* refused, after an earlier draft with two more steps had been saved
C23_Witness ==
  /\ last = Did("handleSaveConfig", << "noCategory" >>)
  /\ enabledCount(draft["A"][1]) = 0
  /\ Len(draft["A"][1].categories) = 2
  /\ storedConfig # << savedRecord(savedCategories, BackfilledFields, savedSteps) >>
  /\ Len(storedConfig[1].onboardingSteps) = 3
  /\ enabledCount(storedConfig[1]) = 1

(***************************************************************************)
(* C24: the draft of the admin settings always has between 1 and 5         *)
(* onboarding steps, whatever steps are added and removed after it was     *)
(* loaded: adding at 5 steps and removing at 1 step leave the draft as it  *)
(* was, every other add appends one step and every other remove takes one  *)
(* away.                                                                   *)
(***************************************************************************)
C24_StepsBetweenOneAndFive ==
  /\ [](settingsShown("A") =>
          /\ Len(draft["A"][1].onboardingSteps) >= 1
          /\ Len(draft["A"][1].onboardingSteps) <= 5)
  /\ [][LET steps == draft["A"][1].onboardingSteps
         IN /\ last'.op = "handleAddOnboardingStep" =>
                 IF Len(steps) = 5
                   THEN draft' = draft
                   ELSE Len(draft'["A"][1].onboardingSteps) = Len(steps) + 1
            /\ last'.op = "handleRemoveOnboardingStep" =>
                 IF Len(steps) = 1
                   THEN draft' = draft
                   ELSE Len(draft'["A"][1].onboardingSteps) = Len(steps) - 1]_vars

\* the remove button is pressed on a draft whose single step is one that
\* was added, after a draft of five steps had been saved
C24_Witness ==
  /\ last = Did("handleRemoveOnboardingStep", << 0, "rejected" >>)
  /\ draft["A"][1].onboardingSteps = << newStep >>
  /\ Len(storedConfig[1].onboardingSteps) = 5

(***************************************************************************)
(* C25: no two categories of the draft have names that are equal ignoring  *)
(* case, after any sequence of add, remove and toggle actions, names typed *)
(* with leading or trailing whitespace included; a name that is blank or   *)
(* that exists ignoring case is refused with the draft unchanged.          *)
(***************************************************************************)
C25_CategoryNamesUnique ==
  /\ [](settingsShown("A") =>
          LET cats == draft["A"][1].categories
          IN \A i, j \in 1..Len(cats) :
               toLowerCase(cats[i].name) = toLowerCase(cats[j].name) => i = j)
  /\ [][last'.op = "handleAddCategory" =>
         LET cats == draft["A"][1].categories
             name == last'.args[1]
         IN (\/ trim(name) = ""
             \/ \E i \in 1..Len(cats) :
                   toLowerCase(cats[i].name) = toLowerCase(trim(name)))
            => draft' = draft]_vars

(***************************************************************************)
(* C26: selecting an SMTP provider sets smtpProvider of the draft to the   *)
(* provider selected and, for gmail, outlook and sendgrid, smtpHost and    *)
(* smtpPort to the defaults of that provider; custom keeps host and port.  *)
(* Nothing else of the draft changes.                                      *)
(***************************************************************************)
C26_ProviderDefaultsApplied ==
  [][last'.op = "handleSMTPProviderChange" =>
       LET provider == last'.args[1]
           before == draft["A"][1].emailNotifications
           after == draft'["A"][1].emailNotifications
           host == CASE provider = "gmail" -> "smtp.gmail.com"
                     [] provider = "outlook" -> "smtp.office365.com"
                     [] provider = "sendgrid" -> "smtp.sendgrid.net"
                     [] OTHER -> before.smtpHost
           port == IF provider = "custom" THEN before.smtpPort ELSE 587
       IN draft'["A"][1] =
            [draft["A"][1] EXCEPT !.emailNotifications =
               [before EXCEPT !.smtpProvider = provider, !.smtpHost = host,
                              !.smtpPort = port]]]_vars

(***************************************************************************)
(* C27: in every state no assignment has the same user as sender and as    *)
(* recipient, and every assignment has between 1 and 5 points.             *)
(***************************************************************************)
C27_NoSelfAssignment ==
  \A i \in 1..Len(assignments) :
    /\ assignments[i].fromUserId # assignments[i].toUserId
    /\ assignments[i].points >= 1
    /\ assignments[i].points <= 5

\* beside the four seeded assignments (one of 4 points) there is one a
\* dialog wrote, and the recipient of it now has the dialog open herself
C27_Witness ==
  /\ Len(assignments) = 5
  /\ assignments[3].points = 4
  /\ assignments[5].fromUserId = "2" /\ assignments[5].toUserId = "1"
  /\ assignments[5].points = 5
  /\ tab["A"].currentUser = "1"
  /\ dlg["A"].open

(***************************************************************************)
(* C28: a reset, partial or total, is made for employees only and changes  *)
(* only records of the selected users in the current month: the            *)
(* allocations of the other users and of the other months, the             *)
(* assignments of the other months and those between other users, the      *)
(* users, the current user and the persisted configuration stay as they    *)
(* were; with nobody selected nothing changes at all.                      *)
(***************************************************************************)
C28_ResetFrame ==
  [][last'.op = "handleResetPoints" =>
       LET S == last'.args[1]
           kept(a) == a.month # now \/ (a.fromUserId \notin S /\ a.toUserId \notin S)
       IN /\ S \subseteq employees(users)
          /\ users' = users
          /\ storedUser' = storedUser
          /\ tab' = tab
          /\ storedConfig' = storedConfig
          /\ Len(allocations') = Len(allocations)
          /\ \A i \in 1..Len(allocations) :
               (allocations[i].userId \notin S \/ allocations[i].month # now)
                 => allocations'[i] = allocations[i]
          /\ SelectSeq(assignments', kept) = SelectSeq(assignments, kept)
          /\ S = {} => allocations' = allocations /\ assignments' = assignments]_vars

\* a total reset of María and Juan in the second month: Juan has a record
\* of that month, and his record of the first month still shows the seeded
\* balances
C28_Witness ==
  /\ last = Did("handleResetPoints", << {"1", "2"}, "total" >>)
  /\ now = 2
  /\ hasAllocation(allocations, "2", 2)
  /\ pointsRemaining(allocations, "2", 1) = 7
  /\ pointsReceived(allocations, "2", 1) = 4
  /\ Len(assignments) >= 4

(***************************************************************************)
(* C29: a dialog that is waiting in its submission does not start a second *)
(* one, and the write of a confirmed dialog appends one assignment and     *)
(* debits the sender once; when the dialog was dismissed while the         *)
(* submission was waiting, the write is still the whole transfer: the      *)
(* assignment together with the debit of the sender and the credit of the  *)
(* recipient, never the assignment without them.                           *)
(***************************************************************************)
C29_WrittenOnceAndWhole ==
  /\ [][last'.op = "handleSubmitStart" =>
         /\ ~dlg["A"].isSubmitting
         /\ dlg'["A"].isSubmitting]_vars
  /\ [][SubmitWrites("A") =>
         LET s == Head(pending["A"])
         IN /\ Len(assignments') = Len(assignments) + 1
            /\ ~dlg["A"].isSubmitting =>
                 /\ hasAllocation(allocations', s.fromUserId, now)
                 /\ pointsRemaining(allocations', s.fromUserId, now)
                      = pointsRemaining(allocations, s.fromUserId, now) - s.points
                 /\ hasAllocation(allocations', s.toUserId, now)
                 /\ pointsReceived(allocations', s.toUserId, now)
                      = pointsReceived(allocations, s.toUserId, now) + s.points]_vars


====
